---- MODULE Spec2Model ----
(***************************************************************************)
(* A model of http-rs (src/src/lib.rs): the nom-based streaming parsers of *)
(* Request and Response, the Headers store, body framing and decoding, the *)
(* Request builder, the serializer and Request::send.                      *)
(*                                                                         *)
(* A byte slice (Input = &[u8]) is a TLA+ string; every byte of the model  *)
(* is ASCII, so from_utf8(..).unwrap() never fails on it.  A parser's      *)
(* outcome is a record: kind "Ok" (val, rest), "Incomplete" (nom's         *)
(* Err::Incomplete), "Error" (nom's Err::Error with the stacked errors of  *)
(* parse.rs) or "Panic" (the thread unwinds: panic!, unimplemented!, a     *)
(* slice index out of range).                                              *)
(***************************************************************************)
EXTENDS Integers, Sequences, FiniteSets, TLC

VARIABLES
    kind,    \* stream: which parser the caller runs, "request" or "response"
    msg,     \* stream: the message the peer sends, [line, hdrs, tail]
    buf,     \* stream: the bytes received so far (a prefix of the wire)
    res,     \* stream: outcome of the parse of buf, from its start
    dec,     \* stream: outcome of SinglePartBody::decompress on res's body
    store,   \* headers: a Headers value (HashMap<String, String>)
    log,     \* headers: the header lines / inserts that entered store, in order
    got,     \* headers: outcome of the last Headers::get
    req,     \* builder: the Request under construction
    calls,   \* builder: number of builder calls made
    out,     \* builder: bytes written by Request::serialize
    back,    \* builder: outcome of Request::parse on out
    asked,   \* builder: the argument of the last port(p) call, None if none
    pc,      \* send: the next step of Request::send
    peer,    \* send: the address TcpStream::connect was given, None if none
    sbuf,    \* send: the Vec<u8> that holds the request, then the reply
    sent,    \* send: the bytes written to the transport
    rcvd,    \* send: the bytes read from the transport
    steps,   \* send: the steps performed, in order
    faults,  \* send: the steps that failed
    ret      \* send: what Request::send returned

vars == <<kind, msg, buf, res, dec, store, log, got, req, calls, out, back,
          asked, pc, peer, sbuf, sent, rcvd, steps, faults, ret>>
streamVars == <<kind, msg, buf, res, dec>>
headerVars == <<store, log, got>>
buildVars == <<req, calls, out, back, asked>>
sendVars == <<pc, peer, sbuf, sent, rcvd, steps, faults, ret>>

----------------------------------------------------------------------------
(* Bounds of the model *)

\* header lines in a streamed message
MaxHdrs == 2
\* bytes that follow the header block of a streamed message
MaxTail == 3
\* header lines / inserts entering a Headers store
MaxLog == 3
\* builder calls on one Request
MaxCalls == 3

----------------------------------------------------------------------------
(* Byte slices *)

At(s, k) == SubSeq(s, k, k)
Take(s, k) == SubSeq(s, 1, k)
Drop(s, k) == SubSeq(s, k + 1, Len(s))

UpperChars == "ABCDEFGHIJKLMNOPQRSTUVWXYZ"
LowerChars == "abcdefghijklmnopqrstuvwxyz"
DigitChars == "0123456789"
UpperSet == {At(UpperChars, k) : k \in 1..26}
LowerSet == {At(LowerChars, k) : k \in 1..26}
DigitSet == {At(DigitChars, k) : k \in 1..10}

\* CtrlChars
Space == " "
CR == "\r"
LF == "\n"
Colon == ":"

\* nom::character::is_alphabetic
is_alphabetic(c) == c \in UpperSet \/ c \in LowerSet

\* nom::character::is_digit
is_digit(c) == c \in DigitSet

UpperOf(c) ==
    IF c \in LowerSet
    THEN At(UpperChars, CHOOSE k \in 1..26 : At(LowerChars, k) = c)
    ELSE c

\* str::to_uppercase
RECURSIVE to_uppercase(_)
to_uppercase(s) ==
    IF s = "" THEN "" ELSE UpperOf(At(s, 1)) \o to_uppercase(Drop(s, 1))

----------------------------------------------------------------------------
(* nom outcomes and the error type of parse.rs *)

Ok(v, r) == [kind |-> "Ok", val |-> v, rest |-> r]
Incomplete == [kind |-> "Incomplete"]
\* Error::from_error_kind
from_error_kind(i, code) == [kind |-> "Error", errors |-> << <<i, code>> >>]
\* Error::append
append(i, code, e) == [e EXCEPT !.errors = Append(@, <<i, code>>)]
Panic(what) == [kind |-> "Panic", what |-> what]

\* nom::error::context over Error::add_context
context(ctx, i, r) ==
    IF r.kind = "Error"
    THEN [r EXCEPT !.errors = Append(@, <<i, "Context " \o ctx>>)]
    ELSE r

\* the stages of a parser are chained as `?` chains them: a stage that is
\* handed an outcome other than Ok returns it and runs nothing further
Failed(r) == r.kind # "Ok"

\* index of the first byte the predicate holds of, 0 when there is none
Position(P(_), i) ==
    IF \E k \in 1..Len(i) : P(At(i, k))
    THEN CHOOSE k \in 1..Len(i) :
            P(At(i, k)) /\ \A j \in 1..(k - 1) : ~P(At(i, j))
    ELSE 0

\* streaming split_at_position, the position found: Incomplete when no
\* byte satisfies the predicate
split_at(i, k) ==
    IF k = 0 THEN Incomplete ELSE Ok(Take(i, k - 1), Drop(i, k - 1))

\* streaming split_at_position1, the position found: the prefix must not
\* be empty
split_at1(i, k, code) ==
    IF k = 0 THEN Incomplete
    ELSE IF k = 1 THEN from_error_kind(i, code)
    ELSE Ok(Take(i, k - 1), Drop(i, k - 1))

NotAlpha(c) == ~is_alphabetic(c)
NotDigit(c) == ~is_digit(c)
NotSpace(c) == ~(c = " " \/ c = "\t")
IsSpace(c) == c = Space
IsCR(c) == c = CR
IsColon(c) == c = Colon

\* take_while(is_alphabetic)
take_while_alphabetic(i) == split_at(i, Position(NotAlpha, i))

\* take_till(|c| c == Space)
take_till_space(i) == split_at(i, Position(IsSpace, i))

\* take_till(|c| c == CR)
take_till_cr(i) == split_at(i, Position(IsCR, i))

\* take_till(|c| c == Colon)
take_till_colon(i) == split_at(i, Position(IsColon, i))

\* streaming space1
space1(i) == split_at1(i, Position(NotSpace, i), "Space")

\* streaming digit1
digit1(i) == split_at1(i, Position(NotDigit, i), "Digit")

Min(a, b) == IF a < b THEN a ELSE b

\* Compare::compare of a slice with a tag: the bytes both have are compared,
\* then the lengths
compare(i, t) ==
    IF Take(i, Min(Len(i), Len(t))) # Take(t, Min(Len(i), Len(t))) THEN "Error"
    ELSE IF Len(i) < Len(t) THEN "Incomplete"
    ELSE "Ok"

\* what a streaming tag returns for the outcome of compare
tag_of(t, i, c, code) ==
    IF c = "Ok" THEN Ok(t, Drop(i, Len(t)))
    ELSE IF c = "Incomplete" THEN Incomplete
    ELSE from_error_kind(i, code)

\* streaming tag
tag(t, i) == tag_of(t, i, compare(i, t), "Tag")

\* crlf of nom's complete module: a short input is an error, not Incomplete
crlf_complete(i) ==
    IF Len(i) >= 2 /\ Take(i, 2) = "\r\n" THEN Ok("\r\n", Drop(i, 2))
    ELSE from_error_kind(i, "CrLf")

\* streaming crlf
crlf(i) == tag_of("\r\n", i, compare(i, "\r\n"), "CrLf")

\* the second parser of terminated(p, q): p's value, q's remaining slice
keep_first(a, b) == IF Failed(b) THEN b ELSE Ok(a.val, b.rest)

\* terminated(p, crlf), p's outcome given
then_crlf(a) == IF Failed(a) THEN a ELSE keep_first(a, crlf(a.rest))

\* terminated(p, space1), p's outcome given
then_space1(a) == IF Failed(a) THEN a ELSE keep_first(a, space1(a.rest))

\* terminated(take_till(|c| c == CR), crlf)
line_till_crlf(i) == then_crlf(take_till_cr(i))

\* preceded(space1, take_till(|c| c == Space)), space1's outcome given
token_after(s) == IF Failed(s) THEN s ELSE take_till_space(s.rest)

\* preceded(space1, terminated(take_till(|c| c == CR), crlf)), space1's
\* outcome given
line_after(s) == IF Failed(s) THEN s ELSE line_till_crlf(s.rest)

----------------------------------------------------------------------------
(* Option<T>: None is the empty tuple, Some(x) the one-element tuple *)

None == <<>>
Some(x) == <<x>>

----------------------------------------------------------------------------
(* Method *)

\* enum Method, with strum's EnumString / Display: the variant names
Methods == {"OPTIONS", "GET", "HEAD", "POST", "PUT", "DELETE", "TRACE", "CONNECT"}

\* Method::from_str (strum EnumString): an exact, case-sensitive match
Method_from_str(tok) == IF tok \in Methods THEN Some(tok) ELSE None

\* Method::serialize: string(self.to_string())
Method_serialize(m) == m

\* Method::parse, the outcome of take_while(is_alphabetic) given: the match
\* on Method::from_str, whose Err arm panics
method_of(a) ==
    IF Failed(a) THEN a
    ELSE IF Method_from_str(a.val) = None THEN Panic("Invalid HTTP method")
    ELSE Ok(Method_from_str(a.val)[1], a.rest)

\* Method::parse
Method_parse(i) == context("Method", i, method_of(take_while_alphabetic(i)))

----------------------------------------------------------------------------
(* Header and Headers *)

\* a Header::parse that keeps key and value as they are on the wire
header_as_given(key, v) ==
    IF Failed(v) THEN v ELSE Ok([key |-> key, value |-> v.val], v.rest)

\* Header::parse, key and value taken: both are uppercased
header_of(key, v) ==
    IF Failed(v) THEN v
    ELSE Ok([key |-> to_uppercase(key), value |-> to_uppercase(v.val)], v.rest)

\* Header::parse, the key and the outcome of tag(b": ") given
header_value(key, t) ==
    IF Failed(t) THEN t ELSE header_of(key, line_till_crlf(t.rest))

\* Header::parse, the outcome of take_till(|c| c == Colon) given
header_sep(k) == IF Failed(k) THEN k ELSE header_value(k.val, tag(": ", k.rest))

\* Header::parse: `key ": " value CRLF`
Header_parse(i) == context("Header", i, header_sep(take_till_colon(i)))

RECURSIVE many_till(_, _)
\* many_till(Header::parse, crlf), crlf having failed on i: Header::parse's
\* outcome f decides
many_till_step(i, acc, f) ==
    IF f.kind = "Error" THEN append(i, "ManyTill", f)
    ELSE IF Failed(f) THEN f
    ELSE IF f.rest = i THEN from_error_kind(f.rest, "ManyTill")
    ELSE many_till(f.rest, Append(acc, f.val))

\* many_till(Header::parse, crlf), crlf's outcome g on i given
many_till_end(i, acc, g) ==
    IF g.kind = "Ok" THEN Ok(acc, g.rest)
    ELSE IF g.kind = "Error" THEN many_till_step(i, acc, Header_parse(i))
    ELSE g

\* many_till(Header::parse, crlf)
many_till(i, acc) == many_till_end(i, acc, crlf(i))

\* HashMap::new
Headers_new == [k \in {} |-> ""]

\* an insert that keeps the value of a present key (entry().or_insert())
HashMap_or_insert(m, key, val) ==
    [k \in (DOMAIN m) \cup {key} |-> IF k \in DOMAIN m THEN m[k] ELSE val]

\* HashMap::insert: a present key's value is replaced
HashMap_insert(m, key, val) ==
    [k \in (DOMAIN m) \cup {key} |-> IF k = key THEN val ELSE m[k]]

\* the loop of Headers::parse: insert the parsed headers in wire order
RECURSIVE insert_all(_, _)
insert_all(m, data) ==
    IF data = <<>> THEN m
    ELSE insert_all(HashMap_insert(m, data[1].key, data[1].value), Tail(data))

\* Headers::parse, many_till's outcome given
headers_of(m) ==
    IF Failed(m) THEN m ELSE Ok(insert_all(Headers_new, m.val), m.rest)

\* Headers::parse
Headers_parse(i) == context("Headers", i, headers_of(many_till(i, <<>>)))

\* Headers::insert: key and value are stored as given
Headers_insert(h, key, val) == HashMap_insert(h, key, val)

\* Headers::get
Headers_get(h, key) == IF key \in DOMAIN h THEN Some(h[key]) ELSE None

\* Headers::contains_key
Headers_contains_key(h, key) == key \in DOMAIN h

\* CommonHeaders, strum Display
ContentLength == "CONTENT-LENGTH"
ContentEncoding == "CONTENT-ENCODING"
Connection == "CONNECTION"
HostHeader == "HOST"

----------------------------------------------------------------------------
(* Body *)

DigitVal(c) == (CHOOSE k \in 1..10 : At(DigitChars, k) = c) - 1

RECURSIVE DigitsValue(_, _)
DigitsValue(d, acc) ==
    IF d = "" THEN acc ELSE DigitsValue(Drop(d, 1), 10 * acc + DigitVal(At(d, 1)))

\* the digits of an unsigned number: one or more decimal digits
digits_of(d) ==
    IF d = "" \/ \E k \in 1..Len(d) : ~is_digit(At(d, k))
    THEN None
    ELSE Some(DigitsValue(d, 0))

\* str::parse::<usize>().ok(): an optional '+', then the digits.  The
\* model's digit strings are short, far below usize::MAX.
parse_usize(s) ==
    digits_of(IF s # "" /\ At(s, 1) = "+" THEN Drop(s, 1) ELSE s)

\* SinglePartBody::parse: &i[..len] panics when len > i.len(); the input is
\* returned as it came
SinglePartBody_parse(i, len) ==
    context("Single-part Body", i,
        IF len # None /\ len[1] > Len(i)
        THEN Panic("range end index out of range for slice")
        ELSE Ok([data |-> IF len # None THEN Take(i, len[1]) ELSE i], i))

\* Body::parse, SinglePartBody::parse's outcome given
body_single(b) ==
    IF Failed(b) THEN b ELSE Ok([variant |-> "Single", data |-> b.val.data], b.rest)

\* Body::parse
Body_parse(i, len) == context("Body", i, body_single(SinglePartBody_parse(i, len)))

\* the Some(len) arm of the match on headers.get(CONTENT-LENGTH), the
\* outcome of Body::parse given
body_some(b) == IF Failed(b) THEN b ELSE Ok(Some(b.val), b.rest)

\* the match on headers.get(CONTENT-LENGTH), its outcome given
body_match(len, i) ==
    IF len = None THEN Ok(None, i)
    ELSE body_some(Body_parse(i, parse_usize(len[1])))

\* the match on headers.get(CONTENT-LENGTH) of Request::parse and
\* Response::parse
body_of(headers, i) == body_match(Headers_get(headers, ContentLength), i)

----------------------------------------------------------------------------
(* Request::parse *)

request_of(method, path, version, headers, b) ==
    IF Failed(b) THEN b
    ELSE Ok([method |-> method, path |-> path, protocol |-> "HTTP",
             host |-> None, port |-> None, version |-> version,
             headers |-> headers, body |-> b.val], b.rest)

request_body(method, path, version, h) ==
    IF Failed(h) THEN h
    ELSE request_of(method, path, version, h.val, body_of(h.val, h.rest))

request_headers(method, path, v) ==
    IF Failed(v) THEN v
    ELSE request_body(method, path, v.val, Headers_parse(v.rest))

request_version(method, p) ==
    IF Failed(p) THEN p
    ELSE request_headers(method, p.val, line_after(space1(p.rest)))

request_path(m) ==
    IF Failed(m) THEN m
    ELSE request_version(m.val, token_after(space1(m.rest)))

\* the closure of Request::parse: the request and the remaining slice
Request_parse_inner(i) == context("Request", i, request_path(Method_parse(i)))

\* Request::parse: `let (_, req) = ...?; Ok(req)`.  The remaining slice is
\* kept in the outcome to show what the closure returned; the caller of
\* Request::parse receives val alone.
Request_parse(i) == Request_parse_inner(i)

----------------------------------------------------------------------------
(* Response *)

\* StatusCode::from_str
StatusCode_from_str(d) ==
    CASE d = "200" -> Some("Success")
      [] d = "400" -> Some("BadRequest")
      [] d = "404" -> Some("NotFound")
      [] d = "301" -> Some("MovedPermanently")
      [] OTHER -> None

\* StatusCode::parse, the outcome of terminated(digit1, space1) given: the
\* match on StatusCode::from_str, whose None arm panics
status_of(a) ==
    IF Failed(a) THEN a
    ELSE IF StatusCode_from_str(a.val) = None THEN Panic("Invalid HTTP status code")
    ELSE Ok(StatusCode_from_str(a.val)[1], a.rest)

\* StatusCode::parse
StatusCode_parse(i) == context("Status Code", i, status_of(then_space1(digit1(i))))

status_line_of(version, code, d) ==
    IF Failed(d) THEN d
    ELSE Ok([protocol_version |-> version, status_code |-> code,
             description |-> d.val], d.rest)

status_description(version, c) ==
    IF Failed(c) THEN c
    ELSE status_line_of(version, c.val, line_till_crlf(c.rest))

status_code(v) ==
    IF Failed(v) THEN v ELSE status_description(v.val, StatusCode_parse(v.rest))

\* ResponseStatus::parse
ResponseStatus_parse(i) ==
    context("Status", i, status_code(then_space1(take_till_space(i))))

response_of(status, headers, b) ==
    IF Failed(b) THEN b
    ELSE Ok([status |-> status, headers |-> headers, body |-> b.val], b.rest)

response_body(status, h) ==
    IF Failed(h) THEN h ELSE response_of(status, h.val, body_of(h.val, h.rest))

response_headers(st) ==
    IF Failed(st) THEN st ELSE response_body(st.val, Headers_parse(st.rest))

\* Response::parse (the remaining slice kept as for Request_parse)
Response_parse(i) == context("Response", i, response_headers(ResponseStatus_parse(i)))

----------------------------------------------------------------------------
(* Content decoding *)

\* what a flate2 decoder may write for a compressed buffer
Plain == {"", "P"}

\* GzDecoder / DeflateDecoder / ZlibDecoder read_to_end: the decoded bytes,
\* or an io::Error that `?` returns with self.data untouched
decoder_outcomes(data) ==
    {[kind |-> "Ok", data |-> d] : d \in Plain} \cup {[kind |-> "Err", data |-> data]}

\* SinglePartBody::decompress: the outcomes it can have on a body
decompress(data, headers) ==
    LET header == Headers_get(headers, ContentEncoding)
    IN  IF header = None THEN {[kind |-> "Ok", data |-> data]}
        ELSE IF header[1] \in {"GZIP", "DEFLATE", "ZLIB"} THEN decoder_outcomes(data)
        ELSE {[kind |-> "Panic", data |-> data]}

----------------------------------------------------------------------------
(* The streaming caller: bytes of a message arrive one at a time and the  *)
(* caller re-parses the buffer from its start (spec 4.2), then decodes    *)
(* the body of a parsed message as test_parse_response does.              *)

\* start-lines a peer may send: <<method, path, version>>
RequestStarts ==
    { <<"GET", "/", "HTTP/1.0">>, <<"PUT", "/a", "HTTP/1.1">>,
      <<"get", "/", "HTTP/1.0">>, <<"BREW", "/", "HTTP/1.0">> }

\* status-lines a peer may send: <<version, code, reason>>
ResponseStarts ==
    { <<"HTTP/1.1", "200", "OK">>, <<"HTTP/1.0", "404", "Not Found">>,
      <<"HTTP/1.1", "500", "Oops">> }

\* header lines a peer may send, <<key, value>>, in the order they are sent
WireHeaders ==
    << <<"Host", "a">>, <<"Content-Length", "2">>, <<"content-length", "-1">>,
       <<"Content-Length", "">>, <<"Content-Encoding", "gzip">>,
       <<"Content-Encoding", "br">> >>

\* the bytes a peer may send after the header block
TailBytes == "hiXXXXXXXX"

\* the strictly increasing index sequences of length n into 1..m
Increasing(n, m) ==
    {f \in [1..n -> 1..m] : \A a, b \in 1..n : a < b => f[a] < f[b]}

HeaderChoices ==
    UNION { { [k \in 1..n |-> WireHeaders[f[k]]] : f \in Increasing(n, Len(WireHeaders)) }
            : n \in 0..MaxHdrs }

Messages(kd) ==
    [start : IF kd = "request" THEN RequestStarts ELSE ResponseStarts,
     hdrs : HeaderChoices,
     tail : {Take(TailBytes, k) : k \in 0..MaxTail}]

RECURSIVE HeaderBlock(_)
HeaderBlock(hs) ==
    IF hs = <<>> THEN ""
    ELSE hs[1][1] \o ": " \o hs[1][2] \o "\r\n" \o HeaderBlock(Tail(hs))

\* the message up to and including the bare CRLF that ends the header block
HeadOf(m) ==
    m.start[1] \o " " \o m.start[2] \o " " \o m.start[3] \o "\r\n"
        \o HeaderBlock(m.hdrs) \o "\r\n"

Wire(m) == HeadOf(m) \o m.tail

NotRun == [kind |-> "None"]

\* the parser the caller runs, applied to the bytes b
ParseAs(kd, b) == IF kd = "request" THEN Request_parse(b) ELSE Response_parse(b)

Aborted == res.kind = "Panic" \/ dec.kind = "Panic"

StreamInit ==
    /\ kind \in {"request", "response"}
    /\ msg \in Messages(kind)
    /\ buf = ""
    /\ res = NotRun
    /\ dec = NotRun

IdleStream ==
    /\ kind = "request"
    /\ msg = [start |-> <<"GET", "/", "HTTP/1.0">>, hdrs |-> <<>>, tail |-> ""]
    /\ buf = ""
    /\ res = NotRun
    /\ dec = NotRun

\* the transport delivers the next byte
Recv ==
    /\ ~Aborted
    /\ Len(buf) < Len(Wire(msg))
    /\ buf' = Take(Wire(msg), Len(buf) + 1)
    /\ res' = NotRun
    /\ dec' = NotRun
    /\ UNCHANGED <<kind, msg, headerVars, buildVars, sendVars>>

\* the caller parses the buffer from its start
Parse ==
    /\ ~Aborted
    /\ res = NotRun
    /\ res' = ParseAs(kind, buf)
    /\ UNCHANGED <<kind, msg, buf, dec, headerVars, buildVars, sendVars>>

\* the caller decodes the body of the parsed message, once
Decompress ==
    /\ ~Aborted
    /\ res.kind = "Ok"
    /\ res.val.body # None
    /\ dec = NotRun
    /\ \E o \in decompress(res.val.body[1].data, res.val.headers) :
          /\ dec' = o
          /\ res' = [res EXCEPT !.val.body = Some([variant |-> "Single", data |-> o.data])]
    /\ UNCHANGED <<kind, msg, buf, headerVars, buildVars, sendVars>>

----------------------------------------------------------------------------
(* A Headers store: built by Headers::new and Headers::insert, or produced *)
(* by Headers::parse from a header block, and read by Headers::get.       *)

HeaderKeys == {"Host", "HOST", "Accept"}
HeaderValues == {"a", "A", "b"}
LookupKeys == {"HOST", "Host", "ACCEPT"}

Entry(how, k, v) == [how |-> how, key |-> k, value |-> v]

LineSeqs ==
    UNION { [1..n -> HeaderKeys \X HeaderValues] : n \in 0..MaxLog }

HeadersInit ==
    /\ store = Headers_new
    /\ log = <<>>
    /\ got = NotRun

\* headers.insert(k, v)
HInsert ==
    /\ Len(log) < MaxLog
    /\ \E k \in HeaderKeys, v \in HeaderValues :
          /\ store' = Headers_insert(store, k, v)
          /\ log' = Append(log, Entry("insert", k, v))
    /\ got' = NotRun
    /\ UNCHANGED <<streamVars, buildVars, sendVars>>

\* Headers::parse of the header block made of the lines, ended by a bare
\* CRLF, produces the store
HParse ==
    /\ log = <<>>
    /\ \E ls \in LineSeqs :
          LET r == Headers_parse(HeaderBlock(ls) \o "\r\n")
          IN  /\ r.kind = "Ok"
              /\ store' = r.val
              /\ log' = [k \in 1..Len(ls) |-> Entry("line", ls[k][1], ls[k][2])]
    /\ got' = NotRun
    /\ UNCHANGED <<streamVars, buildVars, sendVars>>

\* headers.get(k)
HGet ==
    /\ \E k \in LookupKeys : got' = [kind |-> "Get", key |-> k, val |-> Headers_get(store, k)]
    /\ UNCHANGED <<store, log, streamVars, buildVars, sendVars>>

----------------------------------------------------------------------------
(* The Request builder, Request::serialize and the parse of its output *)

BuildPaths == {"/", "/gzip"}
BuildHosts == {"h.io"}
BuildPorts == {8080}
BuildHeaders == { <<"CONTENT-LENGTH", "2">>, <<"Accept", "x">> }
BuildBodies == {"hi"}
BuildUsers == { <<"user", "pw">> }

\* Request::default
Request_default ==
    [method |-> "GET", path |-> "/", protocol |-> "HTTP", host |-> None,
     port |-> Some(80), version |-> "HTTP/1.1", headers |-> Headers_new,
     body |-> None]

\* Request::header
Request_header(r, key, val) == [r EXCEPT !.headers = Headers_insert(@, key, val)]

\* Request::basic_auth
Request_basic_auth(r, username, password) == Request_header(r, username, password)

\* Request::keep_alive
Request_keep_alive(r) == Request_header(r, Connection, "keep-alive")

\* Request::host
Request_host(r, h) == Request_header([r EXCEPT !.host = Some(h)], HostHeader, h)

\* Request::https
Request_https(r) == [r EXCEPT !.port = Some(443), !.protocol = "HTTPS"]

\* Request::port
Request_port(r, p) == [r EXCEPT !.port = Some(p)]

\* Request::method
Request_method(r, m) == [r EXCEPT !.method = m]

\* Request::path
Request_path(r, p) == [r EXCEPT !.path = p]

\* Request::body: Body::parse(i, None).ok().map(|(_, body)| body)
Request_body(r, i) ==
    LET b == Body_parse(i, None)
    IN  [r EXCEPT !.body = IF b.kind = "Ok" THEN Some(b.val) ELSE None]

\* the orders in which a HashMap of these keys may be iterated
Orders(keys) ==
    {o \in [1..Cardinality(keys) -> keys] : \A a, b \in DOMAIN o : a # b => o[a] # o[b]}

\* Headers::serialize, iterating the map in the given order
RECURSIVE Headers_serialize(_, _)
Headers_serialize(h, order) ==
    IF order = <<>> THEN ""
    ELSE order[1] \o ": " \o h[order[1]] \o "\r\n" \o Headers_serialize(h, Tail(order))

\* Request::serialize, the header map iterated in the given order
Request_serialize(r, order) ==
    Method_serialize(r.method) \o " " \o r.path \o " " \o r.version \o "\r\n"
        \o Headers_serialize(r.headers, order) \o "\r\n"

BuildInit ==
    /\ req = Request_default
    /\ calls = 0
    /\ out = NotRun
    /\ back = NotRun
    /\ asked = None

Building == calls < MaxCalls /\ out = NotRun

Called(r) ==
    /\ req' = r
    /\ calls' = calls + 1
    /\ UNCHANGED <<out, back, asked, streamVars, headerVars, sendVars>>

SetMethod == Building /\ \E m \in Methods : Called(Request_method(req, m))
SetPath == Building /\ \E p \in BuildPaths : Called(Request_path(req, p))
SetHost == Building /\ \E h \in BuildHosts : Called(Request_host(req, h))
SetHttps == Building /\ Called(Request_https(req))
SetPort ==
    /\ Building
    /\ \E p \in BuildPorts :
          /\ req' = Request_port(req, p)
          /\ asked' = Some(p)
    /\ calls' = calls + 1
    /\ UNCHANGED <<out, back, streamVars, headerVars, sendVars>>
SetHeader == Building /\ \E h \in BuildHeaders : Called(Request_header(req, h[1], h[2]))
SetKeepAlive == Building /\ Called(Request_keep_alive(req))
SetBasicAuth == Building /\ \E u \in BuildUsers : Called(Request_basic_auth(req, u[1], u[2]))
SetBody == Building /\ \E b \in BuildBodies : Called(Request_body(req, b))

\* gen(self.serialize(), buf)
Serialize ==
    /\ out = NotRun
    /\ \E o \in Orders(DOMAIN req.headers) :
          out' = [kind |-> "Bytes", bytes |-> Request_serialize(req, o)]
    /\ UNCHANGED <<req, calls, back, asked, streamVars, headerVars, sendVars>>

\* Request::parse of the serialized bytes
ParseBack ==
    /\ out # NotRun
    /\ back = NotRun
    /\ back' = Request_parse(out.bytes)
    /\ UNCHANGED <<req, calls, out, asked, streamVars, headerVars, sendVars>>

----------------------------------------------------------------------------
(* Request::send: connect, serialize into a buffer, write it, clear the    *)
(* buffer, read the reply to the end of the stream, parse it.  The         *)
(* transport (TcpStream, rustls Stream) is the environment: each of its    *)
(* calls may succeed or fail, and the peer chooses the reply.              *)

\* the port Request::send connects to
send_port(r) == IF r.port # None THEN r.port[1] ELSE 80

\* the requests sent: without a host, over HTTP and over HTTPS, with and
\* without a port(p) call, with one and with two headers
SendRequests ==
    { Request_default,
      Request_host(Request_default, "h.io"),
      Request_https(Request_host(Request_default, "h.io")),
      Request_https(Request_port(Request_host(Request_default, "h.io"), 8080)),
      Request_keep_alive(Request_port(Request_host(Request_default, "h.io"), 8080)),
      Request_header(Request_path(Request_host(Request_default, "h.io"), "/gzip"),
                     "ACCEPT", "x") }

\* what the peer may put on the stream before closing it
Replies ==
    { "HTTP/1.1 200 OK\r\n\r\n",
      "HTTP/1.1 404 Not Found\r\nContent-Length: 2\r\n\r\nhi",
      "HTTP/1.1 200 OK\r\n",
      "HTTP/1.1 OK\r\n\r\n" }

\* how many bytes went through before a transport call failed
Cuts(b) == {0, Len(b) - 1, Len(b)} \cap (0..Len(b))

\* io::Error kinds a failed read may carry
ReadErrors == {"ConnectionAborted", "ConnectionReset"}

Ret(k, v) == [kind |-> k, val |-> v]

SendIdle ==
    /\ pc = "idle"
    /\ peer = None
    /\ sbuf = ""
    /\ sent = ""
    /\ rcvd = ""
    /\ steps = <<>>
    /\ faults = {}
    /\ ret = NotRun

SendInit ==
    /\ req \in SendRequests
    /\ calls = 0
    /\ out = NotRun
    /\ back = NotRun
    /\ asked = None
    /\ SendIdle

\* the step is over: it is recorded and send goes on to `next`
Step(name, next) ==
    /\ steps' = Append(steps, name)
    /\ pc' = next

\* the step failed and send is over: it returns what `?`, unwrap or panic! gives
Stop(name, r) ==
    /\ steps' = Append(steps, name)
    /\ faults' = faults \cup {name}
    /\ ret' = r
    /\ pc' = "done"

\* match self.host: None panics; Some(host): TcpStream::connect(host:port)?
Connect ==
    /\ pc = "idle"
    /\ \/ /\ req.host = None
          /\ Stop("connect", Ret("Panic", "No URL provided."))
          /\ peer' = peer
       \/ /\ req.host # None
          /\ peer' = Some([host |-> req.host[1], port |-> send_port(req)])
          /\ \/ Step("connect", "gen") /\ UNCHANGED <<faults, ret>>
             \/ Stop("connect", Ret("Err", "connect"))
    /\ UNCHANGED <<sbuf, sent, rcvd, streamVars, headerVars, buildVars>>

\* gen(self.serialize(), Vec::new())?: writing into a Vec does not fail
Gen ==
    /\ pc = "gen"
    /\ \E o \in Orders(DOMAIN req.headers) : sbuf' = Request_serialize(req, o)
    /\ Step("serialize", "write")
    /\ UNCHANGED <<peer, sent, rcvd, faults, ret, streamVars, headerVars, buildVars>>

\* send_http / send_https: write_all(buf)?; buf.clear()
Write ==
    /\ pc = "write"
    /\ \/ /\ sent' = sbuf
          /\ sbuf' = ""
          /\ Step("write", "read")
          /\ UNCHANGED <<faults, ret>>
       \/ /\ \E k \in Cuts(sbuf) : sent' = Take(sbuf, k)
          /\ sbuf' = sbuf
          /\ Stop("write", Ret("Err", "write"))
    /\ UNCHANGED <<peer, rcvd, streamVars, headerVars, buildVars>>

\* send_http: socket.read_to_end(buf)?
\* send_https: tls_stream.read_to_end(&mut buf), an error returned unless
\* its kind is ConnectionAborted
Read ==
    /\ pc = "read"
    /\ \E w \in Replies :
          \/ /\ rcvd' = w
             /\ sbuf' = sbuf \o w
             /\ Step("read", "parse")
             /\ UNCHANGED <<faults, ret>>
          \/ \E k \in Cuts(w), e \in ReadErrors :
                /\ rcvd' = Take(w, k)
                /\ sbuf' = sbuf \o Take(w, k)
                /\ IF req.protocol = "HTTPS" /\ e = "ConnectionAborted"
                   THEN /\ Step("read", "parse")
                        /\ faults' = faults \cup {"read"}
                        /\ ret' = ret
                   ELSE Stop("read", Ret("Err", "read"))
    /\ UNCHANGED <<peer, sent, streamVars, headerVars, buildVars>>

\* Ok(Response::parse(&mut buf).unwrap())
unwrap(r) == IF r.kind = "Ok" THEN Ret("Ok", r.val) ELSE Ret("Panic", r.kind)

ParseReply ==
    /\ pc = "parse"
    /\ ret' = unwrap(Response_parse(sbuf))
    /\ faults' = IF Response_parse(sbuf).kind = "Ok" THEN faults ELSE faults \cup {"parse"}
    /\ Step("parse", "done")
    /\ UNCHANGED <<peer, sbuf, sent, rcvd, streamVars, headerVars, buildVars>>

----------------------------------------------------------------------------
(* Specifications *)

StreamNext == Recv \/ Parse \/ Decompress

HeadersNext == HInsert \/ HParse \/ HGet

BuildNext ==
    \/ SetMethod \/ SetPath \/ SetHost \/ SetHttps \/ SetPort \/ SetHeader
    \/ SetKeepAlive \/ SetBasicAuth \/ SetBody \/ Serialize \/ ParseBack

SendNext == Connect \/ Gen \/ Write \/ Read \/ ParseReply

Init == StreamInit /\ HeadersInit /\ BuildInit /\ SendIdle

InitHeaders == IdleStream /\ HeadersInit /\ BuildInit /\ SendIdle

InitBuild == IdleStream /\ HeadersInit /\ BuildInit /\ SendIdle

InitSend == IdleStream /\ HeadersInit /\ SendInit

\* the streaming caller
Spec == Init /\ [][StreamNext]_vars

\* the Headers store
SpecHeaders == InitHeaders /\ [][HeadersNext]_vars

\* the builder and the serializer
SpecBuild == InitBuild /\ [][BuildNext]_vars

\* Request::send
SpecSend == InitSend /\ [][SendNext]_vars

----------------------------------------------------------------------------
(* What the peer's message declares, read off the message itself *)

\* the value of the last header line whose key is `key` in any casing
LastValue(hs, key) ==
    LET at == {k \in 1..Len(hs) : to_uppercase(hs[k][1]) = key}
    IN  IF at = {} THEN None
        ELSE Some(hs[CHOOSE k \in at : \A j \in at : j <= k][2])

\* a non-negative decimal integer
IsNumber(v) == v # "" /\ \A k \in 1..Len(v) : At(v, k) \in DigitSet

\* the start-line names a Method variant / a code of the StatusCode table
GoodStart ==
    IF kind = "request" THEN msg.start[1] \in Methods
    ELSE msg.start[2] \in {"200", "400", "404", "301"}

DeclaredLength == LastValue(msg.hdrs, ContentLength)

HasLength == DeclaredLength # None /\ IsNumber(DeclaredLength[1])

\* the declared length N
LengthN == DigitsValue(DeclaredLength[1], 0)

\* the header block has arrived in full
HeadArrived == Len(buf) >= Len(HeadOf(msg))

\* the bytes received after the header block
AfterHead == Drop(buf, Len(HeadOf(msg)))

Parsed == res # NotRun

----------------------------------------------------------------------------
(* Claims on the streaming parsers *)

\* C1: a well-formed request without CONTENT-LENGTH, re-parsed from its
\* start as it grows: every proper prefix of the message is Incomplete, and
\* the complete message parses to the method, path and version of its
\* start-line.
C1_IncrementalResumption ==
    (kind = "request" /\ GoodStart /\ DeclaredLength = None /\ Parsed) =>
        IF ~HeadArrived THEN res.kind = "Incomplete"
        ELSE /\ res.kind = "Ok"
             /\ res.val.method = msg.start[1]
             /\ res.val.path = msg.start[2]
             /\ res.val.version = msg.start[3]

\* C1 witness: the complete message, with a header line, has been parsed
C1_Witness ==
    /\ kind = "request" /\ GoodStart /\ DeclaredLength = None
    /\ Len(msg.hdrs) >= 1
    /\ buf = HeadOf(msg)
    /\ res.kind = "Ok"
    /\ res.val.path = "/a"

\* C2: with a valid CONTENT-LENGTH N and fewer than N bytes after the header
\* block, Request::parse and Response::parse fail with Incomplete.
C2_ShortBodyIncomplete ==
    (GoodStart /\ HasLength /\ Parsed /\ HeadArrived /\ Len(AfterHead) < LengthN) =>
        res.kind = "Incomplete"

\* C3: with a valid CONTENT-LENGTH N and at least N bytes after the header
\* block, the body is the first N of them and the remaining slice returned
\* is the bytes after those N.
C3_ExactFraming ==
    (GoodStart /\ HasLength /\ Parsed /\ dec = NotRun /\ HeadArrived
        /\ Len(AfterHead) >= LengthN) =>
        /\ res.kind = "Ok"
        /\ res.val.body = Some([variant |-> "Single", data |-> Take(AfterHead, LengthN)])
        /\ res.rest = Drop(AfterHead, LengthN)

\* C4: a CONTENT-LENGTH whose value is not a non-negative integer makes
\* Request::parse and Response::parse fail with a Malformed error; they never
\* succeed with a body.
C4_InvalidLengthMalformed ==
    (GoodStart /\ DeclaredLength # None /\ ~HasLength /\ Parsed /\ HeadArrived) =>
        res.kind = "Error"

\* C5: a method token that is not one of the eight names, or status digits
\* outside the StatusCode table, is returned to the caller as an error: the
\* parse never aborts and never yields a message.
C5_ClosedEnumsReturnErrors ==
    (~GoodStart /\ Parsed) =>
        /\ res.kind # "Panic"
        /\ res.kind # "Ok"
        /\ HeadArrived => res.kind = "Error"

\* C8: with a CONTENT-ENCODING other than GZIP, DEFLATE or ZLIB,
\* SinglePartBody::decompress returns an error to the caller and leaves the
\* body bytes unchanged; it does not abort.
C8_UnsupportedEncoding ==
    (dec # NotRun /\ GoodStart /\ HasLength /\ Headers_contains_key(res.val.headers, ContentEncoding)
        /\ res.val.headers[ContentEncoding] \notin {"GZIP", "DEFLATE", "ZLIB"}) =>
        /\ dec.kind = "Err"
        /\ res.val.body[1].data = dec.data

\* the header map a header block stands for: each key uppercased, mapped to
\* the uppercased value of the last line that carries it
HeaderMapOf(hs) ==
    [key \in {to_uppercase(hs[k][1]) : k \in 1..Len(hs)} |->
        to_uppercase(LastValue(hs, key)[1])]

SameResult(a, b) == a.kind = b.kind /\ (a.kind = "Ok" => a.val = b.val)

\* C13: a result other than Incomplete is final: when the parse of the
\* buffer without its last byte returned a success or an error, the parse of
\* the buffer returns the same kind of result and, for a success, the same
\* method/status, path, version, headers and body.
C13_FinalOutcomes ==
    (Parsed /\ dec = NotRun /\ Len(buf) >= 1) =>
        (ParseAs(kind, Take(buf, Len(buf) - 1)).kind \in {"Ok", "Error"} =>
            SameResult(ParseAs(kind, Take(buf, Len(buf) - 1)), res))

----------------------------------------------------------------------------
(* Claims on the Headers store *)

\* the key and value under which an entry of the log is stored: a parsed
\* line is normalized, an insert is taken as given
KeyOf(e) == IF e.how = "line" THEN to_uppercase(e.key) ELSE e.key
ValOf(e) == IF e.how = "line" THEN to_uppercase(e.value) ELSE e.value

LastOf(key) ==
    CHOOSE k \in 1..Len(log) :
        KeyOf(log[k]) = key /\ \A j \in (k + 1)..Len(log) : KeyOf(log[j]) # key

\* C6: after a header k: v entered the store, by insert or by parse, looking
\* up the uppercase form of k returns the uppercase form of v.
C6_CaseInsensitive ==
    (log # <<>> /\ got # NotRun /\ got.key = to_uppercase(log[Len(log)].key)) =>
        got.val = Some(to_uppercase(log[Len(log)].value))

\* C7: the store holds exactly the keys that entered it, each once, mapped
\* to the value of the last header line / insert that carried the key; parsed
\* keys that differ only in case are one key.
C7_LastWriteWins ==
    /\ DOMAIN store = {KeyOf(log[k]) : k \in 1..Len(log)}
    /\ \A key \in DOMAIN store : store[key] = ValOf(log[LastOf(key)])

\* C7 witness: two parsed lines whose keys differ only in case, then an
\* insert of the same key, each with another value; the insert's value stays
C7_Witness ==
    /\ Len(log) = 3
    /\ log[1].how = "line" /\ log[2].how = "line" /\ log[3].how = "insert"
    /\ log[1].key # log[2].key
    /\ to_uppercase(log[1].key) = to_uppercase(log[2].key)
    /\ log[3].key = to_uppercase(log[1].key)
    /\ to_uppercase(log[1].value) # to_uppercase(log[2].value)
    /\ log[3].value \notin {to_uppercase(log[1].value), to_uppercase(log[2].value)}
    /\ DOMAIN store = {log[3].key}
    /\ store[log[3].key] = log[3].value

----------------------------------------------------------------------------
(* Claims on the builder and the serializer *)

\* the bytes of an Option<Body>
BodyBytes(b) == IF b = None THEN "" ELSE b[1].data

\* start-line, one line per header in the given order, a blank line, the body
Layout(r, order) ==
    r.method \o " " \o r.path \o " " \o r.version \o "\r\n"
        \o Headers_serialize(r.headers, order) \o "\r\n" \o BodyBytes(r.body)

\* C9: the serialized bytes are the start-line, one `KEY: VALUE CRLF` line
\* per stored header in some order, a blank CRLF, then the body bytes.
C9_SerializerLayout ==
    out # NotRun =>
        \E o \in Orders(DOMAIN req.headers) : out.bytes = Layout(req, o)

\* the request declares no length, or the length of the body it carries
LengthMatchesBody ==
    Headers_contains_key(req.headers, ContentLength) =>
        parse_usize(req.headers[ContentLength]) = Some(Len(BodyBytes(req.body)))

\* C10: Request::parse of the serialized request succeeds and recovers the
\* Method the request was built with (stated for the requests whose declared
\* length is that of their body).
C10_MethodRoundTrip ==
    (back # NotRun /\ LengthMatchesBody) =>
        /\ back.kind = "Ok"
        /\ back.val.method = req.method

\* the port the builder calls made so far select: the argument of port(p) if
\* it was called, else 443 if https() was called, else 80
SelectedPort ==
    IF asked # None THEN asked[1]
    ELSE IF req.protocol = "HTTPS" THEN 443 ELSE 80

\* C12: after any sequence of builder calls on Request::default(), the port
\* send connects to is the argument of the explicit port(p) call if one was
\* made, whatever its position relative to https(), otherwise 443 if https()
\* was called, otherwise 80.
C12_PortSelection == send_port(req) = SelectedPort

----------------------------------------------------------------------------
(* Claims on Request::send *)

\* the steps of a send, in the order of the code
SendOrder == <<"connect", "serialize", "write", "read", "parse">>

\* C14: in a send with a host set the steps happen in the order serialize,
\* write of the whole request, read, parse, each at most once; the parser is
\* given only the bytes read from the transport; and a step that fails is
\* the last step performed, its failure returned to the caller as an error.
C14_SendSequence ==
    req.host # None =>
        /\ Len(steps) <= Len(SendOrder)
        /\ steps = SubSeq(SendOrder, 1, Len(steps))
        /\ pc = "read" => \E o \in Orders(DOMAIN req.headers) : sent = Request_serialize(req, o)
        /\ pc = "parse" => sbuf = rcvd
        /\ \A k \in 1..Len(steps) : steps[k] \in faults => k = Len(steps)
        /\ (pc = "done" /\ faults # {}) => ret.kind = "Err"

====
